---- MODULE Spec2Model ----
(***************************************************************************)
(* A model of csv_db.core.CsvDB: a record store backed by one csv file.    *)
(*                                                                         *)
(* The file is a sequence of lines, each line the sequence of its field    *)
(* strings (the csv module's quoting is not modelled: a line is what       *)
(* csv.reader yields for it).  Line 1 is the header.  A Python value is a  *)
(* tagged record, so that str() and the csv writer's own conversion are    *)
(* computed and can disagree.  A record (a dict) is a function from its    *)
(* keys to values.                                                         *)
(***************************************************************************)
EXTENDS Integers, Sequences, FiniteSets, TLC

(* ------------------------------ bounds --------------------------------- *)

\* Largest number of data lines the file is allowed to grow to.
MaxRows == 2

(* --------------------------- value domains ----------------------------- *)

IntVal(n) == [t |-> "int", n |-> n, s |-> ""]
StrVal(s) == [t |-> "str", n |-> 0, s |-> s]
NoneVal == [t |-> "none", n |-> 0, s |-> ""]

\* The values callers pass: an int, a string and None.
Values == {IntVal(1), StrVal("a"), NoneVal}

\* The store objects the caller holds.
Stores == {"db"}

\* Field collections handed to the constructor.
FieldsArgs ==
  { <<"id", "col1">>, <<"col1", "id">>,
    <<>>, <<"id", "">>, <<"id", "id">> }

\* Headers of files that exist before any store is constructed.
InitHeaders ==
  { <<"id", "col1">>, <<"col1", "id">>,
    <<"id">>, <<"id", "col1", "x">>, <<"a", "b">>,
    <<"id", "id">>, <<"id", "", "col1">>, <<"x", "x">> }

\* Keys a caller's record may carry: the schema's and one foreign key.
KeySets == { {"id", "col1"}, {"id", "col1", "x"}, {"id"}, {} }

\* The value of the foreign key never reaches the file; one value is enough.
Records ==
  UNION { { r \in [ks -> Values] : ("x" \in ks) => (r["x"] = StrVal("a")) } : ks \in KeySets }

\* Values looked up: those stored, the strings they are stored as,
\* and the name of a field (test_retrieve_no_record_return_none).
LookupValues == Values \cup {StrVal("1"), StrVal(""), StrVal("id")}

\* Field names used for lookups: the schema's and one that is not a field.
LookupFields == {"id", "col1", "nf"}

\* Lookups: any value in a field of the schema, one value in the other name.
Lookups ==
  { <<v, f>> \in LookupValues \X LookupFields : f = "nf" => v = IntVal(1) }

\* Predicates for query: None, or  lambda r: r[field] == val.
NoPred == [kind |-> "none", field |-> "", val |-> ""]
EqPred(f, v) == [kind |-> "eq", field |-> f, val |-> v]
Preds == {NoPred, EqPred("id", "1"), EqPred("col1", "a"), EqPred("nf", "1")}

(* ------------------------------- state --------------------------------- *)

VARIABLES
  exists,    \* self._path.exists()
  lines,     \* the file's lines, header first; <<>> while the file is absent
  live,      \* the stores whose construction has succeeded
  fields,    \* fields[s] is self._fields of store s
  last,      \* the call the caller holds the outcome of: its arguments, its
             \* outcome, the file before it; Idle between two calls
  log,       \* the records of the successful creates, while pristine
  pristine,  \* the file was absent initially and only creates have written it
  pending    \* pending[s]: the create of store s that has chosen its open mode
             \* (line 138) and has not yet opened the file (line 139)

vars == <<exists, lines, live, fields, last, log, pristine, pending>>

(* --------------------------- pure functions ---------------------------- *)

Range(seq) == {seq[i] : i \in 1..Len(seq)}

Digit(d) ==
  CASE d = 0 -> "0" [] d = 1 -> "1" [] d = 2 -> "2" [] d = 3 -> "3" [] d = 4 -> "4"
    [] d = 5 -> "5" [] d = 6 -> "6" [] d = 7 -> "7" [] d = 8 -> "8" [] d = 9 -> "9"

RECURSIVE NatToStr(_)
NatToStr(n) == IF n < 10 THEN Digit(n) ELSE NatToStr(n \div 10) \o Digit(n % 10)

\* Python's str(): None becomes the four letters "None".
str(v) ==
  CASE v.t = "str" -> v.s
    [] v.t = "int" -> IF v.n < 0 THEN "-" \o NatToStr(0 - v.n) ELSE NatToStr(v.n)
    [] v.t = "none" -> "None"

\* The csv writer's conversion of one field: None becomes the empty string,
\* a string is itself, anything else goes through str().
csv_field(v) == IF v.t = "none" THEN "" ELSE str(v)

(* ------------------------ schema validation ---------------------------- *)

\* any(f == "" for f in fields)
has_missing_field_names(flds) == \E i \in 1..Len(flds) : flds[i] = ""

\* fields.count(f)
count(flds, f) == Cardinality({i \in 1..Len(flds) : flds[i] = f})

\* The names the message lists: those occurring more than once.  The string
\* is empty (falsy) exactly when this set is empty.
make_repeated_fields_str(flds) == {f \in Range(flds) : count(flds, f) > 1}

\* csvfile.readline().strip().split(","): an empty file yields [""].
file_fields(ln) == IF ln = <<>> THEN <<"">> ELSE ln[1]

\* A validation that reads the file's header before it checks the argument.
validate_db_initialisation_file_first(flds, ex, ln) ==
  IF ex /\ has_missing_field_names(file_fields(ln)) THEN "MissingFieldsError"
  ELSE IF ex /\ make_repeated_fields_str(file_fields(ln)) # {} THEN "RepeatedFieldsError"
  ELSE IF Len(flds) = 0 THEN "ValueError"
  ELSE IF has_missing_field_names(flds) THEN "ValueError"
  ELSE IF make_repeated_fields_str(flds) # {} THEN "ValueError"
  ELSE IF ~ex THEN "ok"
  ELSE IF Range(flds) # Range(file_fields(ln)) THEN "FieldsMismatchError"
  ELSE "ok"

\* A validation that compares the two sets before it looks at the header's
\* names.
validate_db_initialisation_mismatch_first(flds, ex, ln) ==
  IF Len(flds) = 0 THEN "ValueError"
  ELSE IF has_missing_field_names(flds) THEN "ValueError"
  ELSE IF make_repeated_fields_str(flds) # {} THEN "ValueError"
  ELSE IF ~ex THEN "ok"
  ELSE IF Range(flds) # Range(file_fields(ln)) THEN "FieldsMismatchError"
  ELSE IF has_missing_field_names(file_fields(ln)) THEN "MissingFieldsError"
  ELSE IF make_repeated_fields_str(file_fields(ln)) # {} THEN "RepeatedFieldsError"
  ELSE "ok"

\* A validation that accepts a file whose header holds the declared fields
\* among others.
validate_db_initialisation_subset(flds, ex, ln) ==
  IF Len(flds) = 0 THEN "ValueError"
  ELSE IF has_missing_field_names(flds) THEN "ValueError"
  ELSE IF make_repeated_fields_str(flds) # {} THEN "ValueError"
  ELSE IF ~ex THEN "ok"
  ELSE IF has_missing_field_names(file_fields(ln)) THEN "MissingFieldsError"
  ELSE IF make_repeated_fields_str(file_fields(ln)) # {} THEN "RepeatedFieldsError"
  ELSE IF ~(Range(flds) \subseteq Range(file_fields(ln))) THEN "FieldsMismatchError"
  ELSE "ok"

\* The exception __init__ ends with, "ok" when it returns.
validate_db_initialisation(flds, ex, ln) ==
  IF Len(flds) = 0 THEN "ValueError"
  ELSE IF has_missing_field_names(flds) THEN "ValueError"
  ELSE IF make_repeated_fields_str(flds) # {} THEN "ValueError"
  ELSE IF ~ex THEN "ok"
  ELSE IF has_missing_field_names(file_fields(ln)) THEN "MissingFieldsError"
  ELSE IF make_repeated_fields_str(file_fields(ln)) # {} THEN "RepeatedFieldsError"
  ELSE IF Range(flds) # Range(file_fields(ln)) THEN "FieldsMismatchError"
  ELSE "ok"

(* ------------------------- csv.DictWriter ------------------------------ *)

\* DictWriter(csvfile, self._fields) keeps the default extrasaction="raise":
\* a key outside fieldnames makes _dict_to_list raise ValueError.
wrong_fields(flds, rec) == (DOMAIN rec) \ Range(flds)

\* A line that holds only the values of the keys the dict has.
dict_to_list_present(flds, rec) ==
  LET present == SelectSeq(flds, LAMBDA k : k \in DOMAIN rec)
  IN [i \in 1..Len(present) |-> csv_field(rec[present[i]])]

\* The line written for a dict: one value per fieldname, in fieldnames order,
\* restval "" for a key the dict lacks.
dict_to_list(flds, rec) ==
  [i \in 1..Len(flds) |->
     IF flds[i] \in DOMAIN rec THEN csv_field(rec[flds[i]]) ELSE ""]

(* ------------------------- csv.DictReader ------------------------------ *)

\* Position of the value dict(zip(fieldnames, row)) keeps for f: the last.
LastIndex(flds, f) == CHOOSE i \in 1..Len(flds) :
  /\ flds[i] = f
  /\ \A j \in 1..Len(flds) : flds[j] = f => j <= i

\* The dict DictReader(csvfile, self._fields) yields for one line: values by
\* position in self._fields, restval None for a short line.  (A line longer
\* than fieldnames would add the key None; every line of a reachable file
\* has exactly len(self._fields) values.)
row_dict(flds, row) ==
  [f \in Range(flds) |->
     IF LastIndex(flds, f) <= Len(row) THEN StrVal(row[LastIndex(flds, f)]) ELSE NoneVal]

\* A reader that does not consume the header line.
make_data_reader_keep_header(flds, ln) ==
  IF ln = <<>>
  THEN [err |-> "StopIteration", rows |-> <<>>]
  ELSE [err |-> "ok", rows |-> [i \in 1..Len(ln) |-> row_dict(flds, ln[i])]]

\* _make_data_reader: a reader over the lines with the first one consumed.
\* next() on a file without lines raises StopIteration.
make_data_reader(flds, ln) ==
  IF ln = <<>>
  THEN [err |-> "StopIteration", rows |-> <<>>]
  ELSE [err |-> "ok", rows |-> [i \in 1..(Len(ln) - 1) |-> row_dict(flds, ln[i + 1])]]

(* ----------------------------- results --------------------------------- *)

\* What a call leaves behind: the exception ("ok" for a return), the names
\* its message lists, the value returned (a tuple of dicts; retrieve returns
\* <<>> for None and <<row>> for a row) and the file afterwards.
Result(err, names, ret, ex, ln) ==
  [err |-> err, names |-> names, ret |-> ret, exists |-> ex, lines |-> ln]

(* ------------------------------ create --------------------------------- *)

\* The absent fields listed from the last field to the first.
RECURSIVE Reverse(_)
Reverse(seq) == IF seq = <<>> THEN <<>> ELSE Append(Reverse(Tail(seq)), Head(seq))

missing_fields_reversed(flds, rec) ==
  Reverse(SelectSeq(flds, LAMBDA k : k \notin DOMAIN rec))

\* [k for k in self._fields if k not in record]
missing_fields(flds, rec) == SelectSeq(flds, LAMBDA k : k \notin DOMAIN rec)

\* A create that puts the new line right after the header.
create_first(flds, ex, ln, rec) ==
  IF missing_fields(flds, rec) # <<>>
  THEN Result("ValueError", missing_fields(flds, rec), <<>>, ex, ln)
  ELSE LET opened == IF ex THEN ln ELSE <<flds>>
       IN IF wrong_fields(flds, rec) # {}
          THEN Result("ValueError", <<>>, <<>>, TRUE, opened)
          ELSE Result("ok", <<>>, <<>>, TRUE,
                      <<opened[1], dict_to_list(flds, rec)>> \o Tail(opened))

\* A create that skips a record whose line the file already holds.
create_skip_duplicate(flds, ex, ln, rec) ==
  IF missing_fields(flds, rec) # <<>>
  THEN Result("ValueError", missing_fields(flds, rec), <<>>, ex, ln)
  ELSE LET opened == IF ex THEN ln ELSE <<flds>>
       IN IF wrong_fields(flds, rec) # {}
          THEN Result("ValueError", <<>>, <<>>, TRUE, opened)
          ELSE IF \E i \in 2..Len(opened) : opened[i] = dict_to_list(flds, rec)
          THEN Result("ok", <<>>, <<>>, TRUE, opened)
          ELSE Result("ok", <<>>, <<>>, TRUE, Append(opened, dict_to_list(flds, rec)))

create(flds, ex, ln, rec) ==
  IF missing_fields(flds, rec) # <<>>
  THEN Result("ValueError", missing_fields(flds, rec), <<>>, ex, ln)
  ELSE LET mode == IF ex THEN "a" ELSE "x"
           \* open(mode="x") creates the file; writeheader() runs before writerow()
           opened == IF mode = "x" THEN <<flds>> ELSE ln
       IN IF wrong_fields(flds, rec) # {}
          THEN Result("ValueError", <<>>, <<>>, TRUE, opened)
          ELSE Result("ok", <<>>, <<>>, TRUE, Append(opened, dict_to_list(flds, rec)))

\* The mode create opens the file in, chosen from the existence check.
open_mode(ex) == IF ex THEN "a" ELSE "x"

\* An open that replaces an existing file instead of failing on it.
create_write_truncate(flds, mode, ex, ln, rec) ==
  LET opened == IF mode = "x" THEN <<flds>> ELSE ln
  IN IF wrong_fields(flds, rec) # {}
     THEN Result("ValueError", <<>>, <<>>, TRUE, opened)
     ELSE Result("ok", <<>>, <<>>, TRUE, Append(opened, dict_to_list(flds, rec)))

\* The second step of create: open in the chosen mode, then write. Mode "x"
\* fails on a file that exists and writes the header on a new one; mode "a"
\* writes no header.
create_write(flds, mode, ex, ln, rec) ==
  IF mode = "x" /\ ex
  THEN Result("FileExistsError", <<>>, <<>>, ex, ln)
  ELSE LET opened == IF mode = "x" THEN <<flds>> ELSE ln
       IN IF wrong_fields(flds, rec) # {}
          THEN Result("ValueError", <<>>, <<>>, TRUE, opened)
          ELSE Result("ok", <<>>, <<>>, TRUE, Append(opened, dict_to_list(flds, rec)))

(* -------------------------- retrieve, query ---------------------------- *)

\* "ok" or the exception _validate_field raises
validate_field(flds, field) ==
  IF field \notin Range(flds) THEN "DatabaseLookupError" ELSE "ok"

\* Positions of the rows whose field equals str(value).
field_hits(rows, value, field) ==
  {i \in 1..Len(rows) : rows[i][field] = StrVal(str(value))}

\* The position a forward scan (the for loop, list.index) stops at: the
\* first of the hits, 0 when there is none.
first_hit(hits) == IF hits = {} THEN 0 ELSE CHOOSE i \in hits : \A j \in hits : i <= j

\* A retrieve that keeps scanning and returns the last matching row.
retrieve_last(flds, ex, ln, value, field) ==
  IF validate_field(flds, field) # "ok"
  THEN Result("DatabaseLookupError", <<>>, <<>>, ex, ln)
  ELSE IF ~ex THEN Result("ok", <<>>, <<>>, ex, ln)
  ELSE LET rows == make_data_reader(flds, ln).rows
           hits == {i \in 1..Len(rows) : rows[i][field] = StrVal(str(value))}
       IN IF hits = {} THEN Result("ok", <<>>, <<>>, ex, ln)
          ELSE Result("ok", <<>>, <<rows[CHOOSE i \in hits : \A j \in hits : j <= i]>>, ex, ln)

\* A retrieve that returns None for an absent file before it checks the field.
retrieve_exists_first(flds, ex, ln, value, field) ==
  IF ~ex THEN Result("ok", <<>>, <<>>, ex, ln)
  ELSE IF validate_field(flds, field) # "ok"
  THEN Result("DatabaseLookupError", <<>>, <<>>, ex, ln)
  ELSE LET reader == make_data_reader(flds, ln)
           i == first_hit(field_hits(reader.rows, value, field))
       IN IF reader.err # "ok" THEN Result(reader.err, <<>>, <<>>, ex, ln)
          ELSE IF i = 0 THEN Result("ok", <<>>, <<>>, ex, ln)
          ELSE Result("ok", <<>>, <<reader.rows[i]>>, ex, ln)

retrieve(flds, ex, ln, value, field) ==
  IF validate_field(flds, field) # "ok"
  THEN Result("DatabaseLookupError", <<>>, <<>>, ex, ln)
  ELSE IF ~ex THEN Result("ok", <<>>, <<>>, ex, ln)
  ELSE LET reader == make_data_reader(flds, ln)
           i == first_hit(field_hits(reader.rows, value, field))
       IN IF reader.err # "ok" THEN Result(reader.err, <<>>, <<>>, ex, ln)
          ELSE IF i = 0 THEN Result("ok", <<>>, <<>>, ex, ln)
          ELSE Result("ok", <<>>, <<reader.rows[i]>>, ex, ln)

\* filter(predicate_fn, rows): with None it keeps the truthy (non-empty) dicts.
Keeps(pred, row) ==
  IF pred.kind = "none" THEN DOMAIN row # {} ELSE row[pred.field] = StrVal(pred.val)

\* The predicate's r[field] raises KeyError on the first row it is applied to.
RaisesKeyError(pred, rows) ==
  pred.kind = "eq" /\ \E i \in 1..Len(rows) : pred.field \notin DOMAIN rows[i]

\* A query that takes a KeyError of the predicate for "no record matches".
query_swallow(flds, ex, ln, pred) ==
  IF ~ex THEN Result("ok", <<>>, <<>>, ex, ln)
  ELSE LET reader == make_data_reader(flds, ln)
       IN IF reader.err # "ok" THEN Result(reader.err, <<>>, <<>>, ex, ln)
          ELSE IF RaisesKeyError(pred, reader.rows)
          THEN Result("ok", <<>>, <<>>, ex, ln)
          ELSE Result("ok", <<>>, SelectSeq(reader.rows, LAMBDA row : Keeps(pred, row)), ex, ln)

\* A query that creates the file, header written, when it is absent.
query_touch(flds, ex, ln, pred) ==
  IF ~ex THEN Result("ok", <<>>, <<>>, TRUE, <<flds>>)
  ELSE LET reader == make_data_reader(flds, ln)
       IN IF reader.err # "ok" THEN Result(reader.err, <<>>, <<>>, ex, ln)
          ELSE IF RaisesKeyError(pred, reader.rows)
          THEN Result("DatabaseLookupError", <<>>, <<>>, ex, ln)
          ELSE Result("ok", <<>>, SelectSeq(reader.rows, LAMBDA row : Keeps(pred, row)), ex, ln)

query(flds, ex, ln, pred) ==
  IF ~ex THEN Result("ok", <<>>, <<>>, ex, ln)
  ELSE LET reader == make_data_reader(flds, ln)
       IN IF reader.err # "ok" THEN Result(reader.err, <<>>, <<>>, ex, ln)
          ELSE IF RaisesKeyError(pred, reader.rows)
          THEN Result("DatabaseLookupError", <<>>, <<>>, ex, ln)
          ELSE Result("ok", <<>>, SelectSeq(reader.rows, LAMBDA row : Keeps(pred, row)), ex, ln)

(* ------------------------------ update --------------------------------- *)

\* writer.writerows(records) maps _dict_to_list lazily over the records: the
\* lines before the first record with a foreign key are written, then
\* ValueError is raised.
FirstWrong(flds, records) ==
  first_hit({i \in 1..Len(records) : wrong_fields(flds, records[i]) # {}})

\* An update that replaces every matching record.
update_all(flds, ex, ln, value, field, rec) ==
  IF validate_field(flds, field) # "ok"
  THEN Result("DatabaseLookupError", <<>>, <<>>, ex, ln)
  ELSE LET q == query(flds, ex, ln, NoPred)
           idx == first_hit(field_hits(q.ret, value, field))
           records == [i \in 1..Len(q.ret) |->
                         IF q.ret[i][field] = StrVal(str(value)) THEN rec ELSE q.ret[i]]
           bad == FirstWrong(flds, records)
           written == IF bad = 0 THEN Len(records) ELSE bad - 1
       IN IF q.err # "ok" THEN Result(q.err, <<>>, <<>>, ex, ln)
          ELSE IF idx = 0 THEN Result("DatabaseLookupError", <<>>, <<>>, ex, ln)
          ELSE Result(IF bad = 0 THEN "ok" ELSE "ValueError", <<>>, <<>>, TRUE,
                      <<flds>> \o [i \in 1..written |-> dict_to_list(flds, records[i])])

\* An update that opens the file for writing before it looks for the record.
update_open_first(flds, ex, ln, value, field, rec) ==
  IF validate_field(flds, field) # "ok"
  THEN Result("DatabaseLookupError", <<>>, <<>>, ex, ln)
  ELSE LET q == query(flds, ex, ln, NoPred)
           idx == first_hit(field_hits(q.ret, value, field))
           records == [q.ret EXCEPT ![idx] = rec]
           bad == FirstWrong(flds, records)
           written == IF bad = 0 THEN Len(records) ELSE bad - 1
       IN IF q.err # "ok" THEN Result(q.err, <<>>, <<>>, ex, ln)
          ELSE IF idx = 0 THEN Result("DatabaseLookupError", <<>>, <<>>, TRUE, <<flds>>)
          ELSE Result(IF bad = 0 THEN "ok" ELSE "ValueError", <<>>, <<>>, TRUE,
                      <<flds>> \o [i \in 1..written |-> dict_to_list(flds, records[i])])

update(flds, ex, ln, value, field, rec) ==
  IF validate_field(flds, field) # "ok"
  THEN Result("DatabaseLookupError", <<>>, <<>>, ex, ln)
  ELSE LET q == query(flds, ex, ln, NoPred)
           idx == first_hit(field_hits(q.ret, value, field))
           records == [q.ret EXCEPT ![idx] = rec]
           bad == FirstWrong(flds, records)
           written == IF bad = 0 THEN Len(records) ELSE bad - 1
       IN IF q.err # "ok" THEN Result(q.err, <<>>, <<>>, ex, ln)
          ELSE IF idx = 0 THEN Result("DatabaseLookupError", <<>>, <<>>, ex, ln)
          ELSE Result(IF bad = 0 THEN "ok" ELSE "ValueError", <<>>, <<>>, TRUE,
                      <<flds>> \o [i \in 1..written |-> dict_to_list(flds, records[i])])

(* ------------------------------ actions -------------------------------- *)

NoRecord == [k \in {} |-> NoneVal]

\* The record of a call: arguments it did not take hold a default.
Call(op, s, flds, value, field, rec, pred, r) ==
  [op |-> op, store |-> s, flds |-> flds, value |-> value, field |-> field,
   record |-> rec, pred |-> pred,
   err |-> r.err, names |-> r.names, ret |-> r.ret,
   preExists |-> exists, preLines |-> lines,
   preLive |-> s \in live, preFields |-> fields[s], mode |-> ""]

Idle ==
  [op |-> "idle", store |-> "db", flds |-> <<>>, value |-> NoneVal, field |-> "",
   record |-> NoRecord, pred |-> NoPred,
   err |-> "ok", names |-> <<>>, ret |-> <<>>,
   preExists |-> FALSE, preLines |-> <<>>,
   preLive |-> FALSE, preFields |-> <<>>, mode |-> ""]

\* No create is between its two steps.
NoPending == [mode |-> "", record |-> NoRecord]

Init ==
  /\ pending = [s \in Stores |-> NoPending]
  /\ exists \in BOOLEAN
  /\ lines \in (IF exists THEN {<<h>> : h \in InitHeaders} ELSE {<<>>})
  /\ live = {}
  /\ fields = [s \in Stores |-> <<>>]
  /\ last = Idle
  /\ log = <<>>
  /\ pristine = ~exists

\* s = CsvDB(path, flds).  When __init__ raises, no object is bound and the
\* name s keeps the store it had.
Construct(s, flds) ==
  LET err == validate_db_initialisation(flds, exists, lines)
  IN /\ last = Idle
     /\ live' = IF err = "ok" THEN live \cup {s} ELSE live
     /\ fields' = IF err = "ok" THEN [fields EXCEPT ![s] = flds] ELSE fields
     /\ last' = Call("init", s, flds, NoneVal, "", NoRecord, NoPred,
                     Result(err, <<>>, <<>>, exists, lines))
     /\ pristine' = (pristine /\ ~(/\ err = "ok"
                                   /\ flds # fields[s]
                                   /\ \E i \in 1..Len(log) : log[i].store = s))
     /\ log' = IF pristine' THEN log ELSE <<>>
     /\ UNCHANGED <<pending, exists, lines>>

\* s.create(rec)
Create(s, rec) ==
  LET r == create(fields[s], exists, lines, rec)
  IN /\ last = Idle
     /\ s \in live
     /\ r.err = "ok" => Len(lines) - 1 < MaxRows
     /\ exists' = r.exists
     /\ lines' = r.lines
     /\ last' = Call("create", s, <<>>, NoneVal, "", rec, NoPred, r)
     /\ pristine' = (pristine /\ r.err = "ok")
     /\ log' = IF pristine' THEN Append(log, [store |-> s, record |-> rec]) ELSE <<>>
     /\ UNCHANGED <<pending, live, fields>>

\* The creates that are between their two steps.
Waiting == { s \in DOMAIN pending : pending[s] # NoPending }

\* First step of s.create(rec): the missing-field check and the existence
\* check that chooses the open mode.
CreateCheck(s, rec) ==
  LET missing == missing_fields(fields[s], rec)
  IN /\ last = Idle
     /\ s \in live
     /\ pending[s] = NoPending
     /\ Len(lines) - 1 + Cardinality(Waiting) < MaxRows
     /\ IF missing # <<>>
        THEN /\ last' = Call("create", s, <<>>, NoneVal, "", rec, NoPred,
                             Result("ValueError", missing, <<>>, exists, lines))
             /\ pristine' = FALSE
             /\ log' = <<>>
             /\ UNCHANGED pending
        ELSE /\ pending' = [pending EXCEPT ![s] =
                              [mode |-> open_mode(exists), record |-> rec]]
             /\ UNCHANGED <<last, pristine, log>>
     /\ UNCHANGED <<exists, lines, live, fields>>

\* Second step of s.create(rec): open the file in the chosen mode and write.
CreateWrite(s) ==
  LET p == pending[s]
      r == create_write(fields[s], p.mode, exists, lines, p.record)
  IN /\ last = Idle
     /\ p # NoPending
     /\ exists' = r.exists
     /\ lines' = r.lines
     /\ last' = [Call("create", s, <<>>, NoneVal, "", p.record, NoPred, r)
                   EXCEPT !.mode = p.mode]
     /\ pending' = [pending EXCEPT ![s] = NoPending]
     /\ pristine' = (pristine /\ r.err = "ok")
     /\ log' = IF pristine' THEN Append(log, [store |-> s, record |-> p.record]) ELSE <<>>
     /\ UNCHANGED <<live, fields>>

\* s.retrieve(value, field)
Retrieve(s, value, field) ==
  LET r == retrieve(fields[s], exists, lines, value, field)
  IN /\ last = Idle
     /\ s \in live
     /\ exists' = r.exists
     /\ lines' = r.lines
     /\ last' = Call("retrieve", s, <<>>, value, field, NoRecord, NoPred, r)
     /\ UNCHANGED <<pending, live, fields, log, pristine>>

\* A query answered from the records this instance has created itself.
Query_own(s, pred) ==
  LET r == query(fields[s], exists, lines, pred)
      own == SelectSeq(log, LAMBDA e : e.store = s)
      cached == [i \in 1..Len(own) |->
                   row_dict(fields[s], dict_to_list(fields[s], own[i].record))]
      seen == IF pristine /\ r.err = "ok"
              THEN [r EXCEPT !.ret = SelectSeq(cached, LAMBDA row : Keeps(pred, row))]
              ELSE r
  IN /\ last = Idle
     /\ s \in live
     /\ exists' = r.exists
     /\ lines' = r.lines
     /\ last' = Call("query", s, <<>>, NoneVal, "", NoRecord, pred, seen)
     /\ UNCHANGED <<pending, live, fields, log, pristine>>

\* s.query(pred)
Query(s, pred) ==
  LET r == query(fields[s], exists, lines, pred)
  IN /\ last = Idle
     /\ s \in live
     /\ exists' = r.exists
     /\ lines' = r.lines
     /\ last' = Call("query", s, <<>>, NoneVal, "", NoRecord, pred, r)
     /\ UNCHANGED <<pending, live, fields, log, pristine>>

\* s.update(value, field, rec)
Update(s, value, field, rec) ==
  LET r == update(fields[s], exists, lines, value, field, rec)
  IN /\ last = Idle
     /\ s \in live
     /\ exists' = r.exists
     /\ lines' = r.lines
     /\ last' = Call("update", s, <<>>, value, field, rec, NoPred, r)
     /\ pristine' = FALSE
     /\ log' = <<>>
     /\ UNCHANGED <<pending, live, fields>>

\* The caller, holding the value or the exception of a call, goes on to its
\* next statement.
Continue ==
  /\ last # Idle
  /\ last' = Idle
  /\ UNCHANGED <<pending, exists, lines, live, fields, log, pristine>>

Next ==
  \/ \E s \in Stores, flds \in FieldsArgs : Construct(s, flds)
  \/ \E s \in Stores, rec \in Records : Create(s, rec)
  \/ \E s \in Stores, l \in Lookups : Retrieve(s, l[1], l[2])
  \/ \E s \in Stores, pred \in Preds : Query(s, pred)
  \/ \E s \in Stores, l \in Lookups, rec \in Records : Update(s, l[1], l[2], rec)
  \/ Continue

Spec == Init /\ [][Next]_vars

(* ------------------- two instances on the same path ------------------- *)

\* Two store objects bound to the same path (test_create_add_record_to_
\* existing_file): their calls run one after another.
Stores2 == {"db", "db2"}

\* The fields the two instances are declared with.
FieldsArgs2 == { <<"id", "col1">>, <<"col1", "id">> }

\* The records and lookups of the two instances.
Records2 ==
  { r \in [{"id", "col1"} -> Values] :
      r["id"] \in {IntVal(1), StrVal("a")} /\ r["col1"] \in {StrVal("a"), NoneVal} }

Lookups2 == { <<IntVal(1), "id">>, <<StrVal("a"), "col1">>, <<NoneVal, "id">> }

Preds2 == {NoPred, EqPred("id", "1")}

InitTwo ==
  /\ pending = [s \in Stores2 |-> NoPending]
  /\ exists \in BOOLEAN
  /\ lines = IF exists THEN << <<"id", "col1">> >> ELSE <<>>
  /\ live = {}
  /\ fields = [s \in Stores2 |-> <<>>]
  /\ last = Idle
  /\ log = <<>>
  /\ pristine = ~exists

NextTwo ==
  \/ \E s \in Stores2, flds \in FieldsArgs2 : Construct(s, flds)
  \/ \E s \in Stores2, rec \in Records2 : Create(s, rec)
  \/ \E s \in Stores2, l \in Lookups2 : Retrieve(s, l[1], l[2])
  \/ \E s \in Stores2, pred \in Preds2 : Query(s, pred)
  \/ \E s \in Stores2, l \in Lookups2, rec \in Records2 : Update(s, l[1], l[2], rec)
  \/ Continue

SpecTwo == InitTwo /\ [][NextTwo]_vars

(* --------------------- two creates that interleave --------------------- *)

\* The records of the racing creates: complete, with an unknown key, and
\* with a key missing.
RecordsRace ==
  Records2 \cup { [k \in {"id", "col1", "x"} |-> IntVal(1)], [k \in {"id"} |-> IntVal(1)] }

\* The path does not exist and no instance is bound to it yet.
InitRace ==
  /\ pending = [s \in Stores2 |-> NoPending]
  /\ exists = FALSE
  /\ lines = <<>>
  /\ live = {}
  /\ fields = [s \in Stores2 |-> <<>>]
  /\ last = Idle
  /\ log = <<>>
  /\ pristine = TRUE

NextRace ==
  \/ \E s \in Stores2, flds \in FieldsArgs2 : Construct(s, flds)
  \/ \E s \in Stores2, rec \in RecordsRace : CreateCheck(s, rec)
  \/ \E s \in Stores2 : CreateWrite(s)
  \/ Continue

SpecRace == InitRace /\ [][NextRace]_vars



\* The textual representation a value is stored as: null is the empty string.
Text(v) ==
  CASE v.t = "none" -> ""
    [] v.t = "int" -> NatToStr(v.n)
    [] v.t = "str" -> v.s

\* The string a lookup value is compared as: str(v).
StrOf(v) ==
  CASE v.t = "none" -> "None"
    [] v.t = "int" -> NatToStr(v.n)
    [] v.t = "str" -> v.s

\* A caller's record in string form over the fields S; an absent value is
\* the empty string.
StringForm(S, rec) ==
  [f \in S |-> StrVal(IF f \in DOMAIN rec THEN Text(rec[f]) ELSE "")]

Pos(flds, f) == CHOOSE i \in 1..Len(flds) : flds[i] = f

\* The record a line holds when its values are taken in the order flds.
AsRead(flds, line) == [f \in Range(flds) |-> StrVal(line[Pos(flds, f)])]

\* The records a file holds, in file order, header excluded, for a store
\* declared with flds.
Held(flds, ex, ln) ==
  IF ~ex \/ ln = <<>> THEN <<>>
  ELSE [i \in 1..(Len(ln) - 1) |-> AsRead(flds, ln[i + 1])]

\* Positions of the records whose field f equals str(v).
Matches(held, v, f) == {i \in 1..Len(held) : held[i][f] = StrVal(StrOf(v))}

Least(S) == CHOOSE i \in S : \A j \in S : i <= j

\* The schema of the store of the last call, and the records it held before.
LastSchema == Range(last.preFields)
HeldBefore == Held(last.preFields, last.preExists, last.preLines)
HeldAfter == Held(fields[last.store], exists, lines)
FileUnchanged == exists = last.preExists /\ lines = last.preLines

(* ------------------------------- claims -------------------------------- *)

\* C1: from an absent file, create(R1), ..., create(Rn) with records over the
\* schema and then query() returns [R1..Rn] in creation order, in string form.
C1_CreateThenQueryAll ==
  (last.op = "query" /\ last.pred = NoPred /\ pristine)
    => /\ last.err = "ok"
       /\ last.ret = [i \in 1..Len(log) |-> StringForm(LastSchema, log[i].record)]

C1_Witness ==
  /\ last.op = "query" /\ last.pred = NoPred /\ pristine
  /\ Len(log) >= 2
  /\ log[1].record # log[2].record
  /\ \E f \in LastSchema : log[1].record[f] = NoneVal

\* C2: for a field f of the schema retrieve(v, f) does not raise; it returns
\* None when the file is absent or holds no data line, otherwise the earliest
\* record (header excluded) whose f equals str(v), and None when there is none.
C2_RetrieveFirstMatch ==
  (last.op = "retrieve" /\ last.field \in LastSchema)
    => /\ last.err = "ok"
       /\ LET hits == Matches(HeldBefore, last.value, last.field)
          IN last.ret = IF hits = {} THEN <<>> ELSE <<HeldBefore[Least(hits)]>>

C2_Witness ==
  /\ last.op = "retrieve" /\ last.field \in LastSchema
  /\ LET hits == Matches(HeldBefore, last.value, last.field)
     IN \E i, j \in hits : i < j /\ HeldBefore[i] # HeldBefore[j]

\* C3: after a successful update(v, f, record) query() has the same length,
\* the first record with f = str(v) is the string form of record, and every
\* other record keeps its content and its position.
C3_UpdateReplacesOne ==
  (last.op = "update" /\ last.err = "ok")
    => LET hits == Matches(HeldBefore, last.value, last.field)
       IN /\ hits # {}
          /\ Len(HeldAfter) = Len(HeldBefore)
          /\ \A j \in 1..Len(HeldBefore) :
               HeldAfter[j] = IF j = Least(hits)
                              THEN StringForm(LastSchema, last.record)
                              ELSE HeldBefore[j]

C3_Witness ==
  /\ last.op = "update" /\ last.err = "ok"
  /\ Cardinality(Matches(HeldBefore, last.value, last.field)) >= 2
  /\ HeldBefore[1] = HeldBefore[2]
  /\ HeldAfter[1] # HeldBefore[1]

\* C4: update(v, f, record) with f in the schema and no record with
\* f = str(v) raises DatabaseLookupError and leaves the file as it was.
C4_UpdateNoMatch ==
  (/\ last.op = "update" /\ last.field \in LastSchema
   /\ Matches(HeldBefore, last.value, last.field) = {})
    => last.err = "DatabaseLookupError" /\ FileUnchanged

C4_Witness ==
  /\ last.op = "update" /\ last.field \in LastSchema
  /\ Matches(HeldBefore, last.value, last.field) = {}
  /\ Len(HeldBefore) >= 1

\* C5: create(record) with a schema field absent raises the ValueError that
\* names exactly the absent fields, in schema order, and writes nothing.
C5_CreateMissingFields ==
  (last.op = "create" /\ LastSchema \ DOMAIN last.record # {})
    => /\ last.err = "ValueError"
       /\ Range(last.names) = LastSchema \ DOMAIN last.record
       /\ \A i, j \in 1..Len(last.names) :
            i < j => Pos(last.preFields, last.names[i]) < Pos(last.preFields, last.names[j])
       /\ FileUnchanged

C5_Witness ==
  /\ last.op = "create"
  /\ Len(last.names) = 2
  /\ last.preFields = <<"col1", "id">>
  /\ last.preExists

\* C6: create(record) then retrieve(record[f], f), f a key no other record
\* shares, returns record in string form, for every value record[f].
C6_RoundTrip ==
  (last.op = "retrieve" /\ last.field \in LastSchema /\ pristine)
    => \A i \in 1..Len(log) :
         (/\ log[i].record[last.field] = last.value
          /\ \A j \in 1..Len(log) :
               j # i => Text(log[j].record[last.field]) # Text(last.value))
           => last.ret = <<StringForm(LastSchema, log[i].record)>>

\* C7: a store on a file whose header is a permutation of its declared
\* fields writes each value in the column of its field in the header.
C7_HeaderOrder ==
  (last.op = "create" /\ last.err = "ok" /\ last.preExists)
    => AsRead(lines[1], lines[Len(lines)]) = StringForm(LastSchema, last.record)

\* C8: on an existing file with a well-formed header, construction with a
\* valid schema raises FieldsMismatchError exactly when the header's set of
\* names differs from the declared set, and leaves the file as it was.
WellFormed(flds) ==
  /\ Len(flds) > 0
  /\ \A i \in 1..Len(flds) : flds[i] # ""
  /\ \A i, j \in 1..Len(flds) : flds[i] = flds[j] => i = j

C8_SchemaMismatch ==
  (/\ last.op = "init" /\ last.preExists
   /\ WellFormed(last.flds) /\ WellFormed(last.preLines[1]))
    => /\ (last.err = "FieldsMismatchError") <=> (Range(last.flds) # Range(last.preLines[1]))
       /\ FileUnchanged

C8_Witness ==
  /\ last.op = "init" /\ last.preExists
  /\ last.err = "FieldsMismatchError"
  /\ Range(last.flds) \subseteq Range(last.preLines[1])

\* C9: create(record) with every schema field present and extra keys
\* succeeds and appends one line holding the schema fields' values.
C9_ExtraKeysDropped ==
  (last.op = "create" /\ LastSchema \subseteq DOMAIN last.record)
    => /\ last.err = "ok"
       /\ Len(HeldAfter) = Len(HeldBefore) + 1
       /\ HeldAfter[Len(HeldAfter)] = StringForm(LastSchema, last.record)

\* C10: a create or an update that raises leaves the file as it was.
C10_NoPartialSuccess ==
  (last.op \in {"create", "update"} /\ last.err # "ok") => FileUnchanged

\* C11: update(v, f, record) rejects a record that lacks a schema field, as
\* create does.
C11_UpdateRejectsMissing ==
  (last.op = "update" /\ LastSchema \ DOMAIN last.record # {})
    => last.err # "ok" /\ FileUnchanged

\* C12: retrieve(v, f) and update(v, f, record) with f not a field raise
\* DatabaseLookupError whatever the file is, and leave it as it was.
C12_UnknownField ==
  (last.op \in {"retrieve", "update"} /\ last.field \notin LastSchema)
    => last.err = "DatabaseLookupError" /\ last.ret = <<>> /\ FileUnchanged

C12_Witness ==
  /\ last.op = "update" /\ last.field \notin LastSchema
  /\ Len(HeldBefore) >= 1
  /\ DOMAIN last.record = LastSchema

\* The predicate of the last query reads a name that is not a field.
ReadsUnknownField == last.pred.kind = "eq" /\ last.pred.field \notin LastSchema

\* C13 as stated: query(predicate), the predicate reading a name that is not
\* a field, raises DatabaseLookupError whatever the file is.
C13_PredicateUnknownField ==
  (last.op = "query" /\ ReadsUnknownField)
    => last.err = "DatabaseLookupError" /\ FileUnchanged

\* C13 amended: it raises DatabaseLookupError when the file holds a record;
\* when the file is absent or holds only the header the predicate is never
\* applied and query returns the empty tuple.  The file is left as it was.
C13_PredicateUnknownFieldOnRecords ==
  (last.op = "query" /\ ReadsUnknownField)
    => /\ FileUnchanged
       /\ Len(HeldBefore) >= 1 => last.err = "DatabaseLookupError"
       /\ Len(HeldBefore) = 0 => last.err = "ok" /\ last.ret = <<>>

C13_Witness ==
  /\ last.op = "query" /\ ReadsUnknownField
  /\ Len(HeldBefore) >= 1
  /\ last.err = "DatabaseLookupError"

\* The predicate of the last query holds of a record.
PredTrue(r) == last.pred.kind = "none" \/ r[last.pred.field] = StrVal(last.pred.val)

\* C14: query(predicate) returns the records for which the predicate is
\* true, in file order, header excluded; all of them without a predicate;
\* the empty tuple when the file is absent.
C14_QuerySubsequence ==
  (last.op = "query" /\ ~ReadsUnknownField)
    => /\ last.err = "ok"
       /\ last.ret = SelectSeq(HeldBefore, PredTrue)
       /\ ~last.preExists => last.ret = <<>>

C14_Witness ==
  /\ last.op = "query" /\ last.pred.kind = "eq"
  /\ Len(last.ret) >= 1
  /\ Len(last.ret) < Len(HeldBefore)

C16_MalformedHeader ==
  (/\ last.op = "init" /\ last.preExists
   /\ WellFormed(last.flds) /\ ~WellFormed(last.preLines[1]))
    => /\ last.err \in {"MissingFieldsError", "RepeatedFieldsError"}
       /\ (\E i \in 1..Len(last.preLines[1]) : last.preLines[1][i] = "")
            => last.err = "MissingFieldsError"
       /\ FileUnchanged

C16_Witness ==
  /\ last.op = "init" /\ last.preExists
  /\ last.err = "RepeatedFieldsError"
  /\ Range(last.flds) # Range(last.preLines[1])

\* The lines of the file before the call, the header create writes first
\* when the file is absent included.
BaseLines == IF last.preExists THEN last.preLines ELSE <<last.preFields>>

\* C17: create(record), record over the schema, succeeds whatever the file
\* holds, an identical record included; it appends one line at the end and
\* leaves the header and the earlier lines as they were.
C17_CreateAppendsOne ==
  (last.op = "create" /\ DOMAIN last.record = LastSchema)
    => /\ last.err = "ok"
       /\ Len(lines) = Len(BaseLines) + 1
       /\ SubSeq(lines, 1, Len(BaseLines)) = BaseLines
       /\ HeldAfter[Len(HeldAfter)] = StringForm(LastSchema, last.record)

C17_Witness ==
  /\ last.op = "create" /\ DOMAIN last.record = LastSchema
  /\ \E i \in 1..Len(HeldBefore) : HeldBefore[i] = StringForm(LastSchema, last.record)

\* C18: query and retrieve leave the file as it was, so that query() called
\* again right after a query() returns the same.
C18_ReadOnly ==
  (last.op \in {"query", "retrieve"})
    => /\ FileUnchanged
       /\ last.op = "query" =>
            LET again == query(fields[last.store], exists, lines, last.pred)
            IN again.err = last.err /\ again.ret = last.ret

C18_Witness ==
  /\ last.op = "query" /\ last.pred = NoPred
  /\ Len(last.ret) >= 2

\* C19: the file comes into existence only by a create that succeeds, and
\* then holds the header and that first record.
C19_FileLifecycle ==
  (last.op # "idle" /\ ~last.preExists)
    => /\ exists => (last.op = "create" /\ last.err = "ok")
       /\ exists => (lines = <<last.preFields, lines[Len(lines)]>> /\ Len(lines) = 2)

\* C20: once the file exists, no call changes its header line.
C20_HeaderFixed ==
  (last.op # "idle" /\ last.preExists)
    => exists /\ lines[1] = last.preLines[1]

\* C22: through a single store, the file, when it exists, is one header
\* line whose names are a permutation of the schema, followed by data lines
\* that each hold as many values as the schema has fields.
C22_RowShape ==
  \A s \in live :
    exists =>
      /\ Len(lines) >= 1
      /\ Len(lines[1]) = Len(fields[s])
      /\ Range(lines[1]) = Range(fields[s])
      /\ \A i \in 2..Len(lines) : Len(lines[i]) = Len(fields[s])

C22_Witness ==
  /\ last.op = "update" /\ last.err = "ok"
  /\ LastSchema \ DOMAIN last.record # {}
  /\ Len(lines) >= 3
  /\ last.preLines[1] # last.preFields

\* Every instance is declared with the same fields in the same order.
SameSchema == \A s, t \in live : fields[s] = fields[t]

\* The created records in string form: what a single instance would hold.
Created == [i \in 1..Len(log) |-> StringForm(LastSchema, log[i].record)]

\* C21: of two instances with the same schema on one path, whose calls do
\* not overlap, each returns from query and retrieve the records created
\* through either, and sees a record updated through the other, as a single
\* instance would.
C21_NoCachedView ==
  /\ (last.op = "query" /\ ~ReadsUnknownField /\ pristine /\ SameSchema)
       => last.err = "ok" /\ last.ret = SelectSeq(Created, PredTrue)
  /\ (last.op = "retrieve" /\ last.field \in LastSchema /\ pristine /\ SameSchema)
       => LET hits == Matches(Created, last.value, last.field)
          IN last.ret = IF hits = {} THEN <<>> ELSE <<Created[Least(hits)]>>
  /\ (last.op = "update" /\ last.err = "ok" /\ SameSchema)
       => \A t \in live :
            query(fields[t], exists, lines, NoPred).ret =
              [HeldBefore EXCEPT ![Least(Matches(HeldBefore, last.value, last.field))] =
                 StringForm(LastSchema, last.record)]

C21_Witness ==
  /\ last.op = "query" /\ last.pred = NoPred /\ pristine /\ SameSchema
  /\ live = Stores2
  /\ Len(log) >= 2
  /\ log[1].store # log[2].store
  /\ last.store # log[Len(log)].store

\* The header lines a store can write.
Headers == FieldsArgs2

\* C23: when the creates of two instances on a path that did not exist run
\* as two steps each, the file holds one header, as its first line; a create
\* that chose mode "x" and finds the file there at open time fails with
\* FileExistsError and leaves the file as it was; a create that saw the
\* file as existing appends its record and no header.
C23_SingleHeader ==
  /\ exists => /\ Len(lines) >= 1
               /\ lines[1] \in Headers
               /\ \A i \in 2..Len(lines) : lines[i] \notin Headers
  /\ (last.op = "create" /\ last.mode = "x" /\ last.preExists)
       => last.err = "FileExistsError" /\ FileUnchanged
  /\ (last.op = "create" /\ last.mode = "x" /\ ~last.preExists /\ last.err = "ok")
       => lines = << last.preFields, dict_to_list(last.preFields, last.record) >>
  /\ (last.op = "create" /\ last.mode = "a" /\ last.err = "ok")
       => lines = Append(last.preLines, dict_to_list(last.preFields, last.record))

C23_Witness ==
  /\ last.op = "create" /\ last.mode = "x" /\ last.err = "FileExistsError"
  /\ Len(lines) = 2 /\ lines = last.preLines
  /\ Waiting = {}

====
